---- MODULE Spec2Model ----
(***************************************************************************)
(* Connect-Four engine of src/main.rs: bitboard rules, move generator,     *)
(* arena game tree, the four MCTS phases and the session loop of main.     *)
(*                                                                         *)
(* A u64 stone mask is modelled as the set of its set bit indices (0..63): *)
(* `a | b` is union, `a & b` is intersection, bit i of `a >> k` is bit      *)
(* i + k of a, `1 << i` is {i}.  Arena indices are 0-based as in the        *)
(* source: node i                                                          *)
(* is graph[i + 1].  Option<usize> None is the value None (-1).            *)
(***************************************************************************)
EXTENDS Integers, Sequences, FiniteSets, TLC

(* ------------------------------ bounds --------------------------------- *)
\* a session is followed until its turns and search iterations number MaxSteps
MaxSteps == 12
\* the thread-local random generator is seeded with one of 0..MaxSeed
MaxSeed == 1
\* the human answers with a column number in 1..MaxHumanInput (at most 7 are accepted)
MaxHumanInput == 2
\* is_winning is applied to the masks of at most MaxCells cells
MaxCells == 4
\* a session in which the human always answers the same column is followed
\* until its turns and search iterations number MaxLongSteps
MaxLongSteps == 17

(* ------------------------- program constants --------------------------- *)
COLS == 7
ROWS == 6
STRIDE == 8
UCTC == 2
None == -1

\* const FULL_GRID: bits y*8+x for x in 0..6, y in 0..5
FULL_GRID == {y * STRIDE + x : x \in 0..(COLS - 1), y \in 0..(ROWS - 1)}

(* ------------------------------ get_moves ------------------------------ *)
\* the inner loop over y for one column x: the first y whose cell is empty, or
\* ROWS when the loop ends without a break
RECURSIVE first_empty(_, _, _)
first_empty(grid, x, y) ==
  IF y >= ROWS THEN ROWS
  ELSE IF (y * STRIDE + x) \notin grid THEN y
  ELSE first_empty(grid, x, y + 1)

\* column_move that forgets to exchange the two masks
column_move_no_swap(p1, p2, x) ==
  LET y == first_empty(p1 \cup p2, x, 0)
  IN  IF y >= ROWS THEN << >> ELSE << <<p1 \cup {y * STRIDE + x}, p2>> >>

column_move(p1, p2, x) ==
  LET y == first_empty(p1 \cup p2, x, 0)
  IN  IF y >= ROWS THEN << >> ELSE << <<p2, p1 \cup {y * STRIDE + x}>> >>

RECURSIVE moves_from(_, _, _)
moves_from(p1, p2, x) ==
  IF x >= COLS THEN << >>
  ELSE column_move(p1, p2, x) \o moves_from(p1, p2, x + 1)

get_moves(p1, p2) == moves_from(p1, p2, 0)

(* ------------------------------ is_winning ----------------------------- *)
\* player & player >> s & player >> 2s & player >> 3s != 0: bit i of player >> k
\* is bit i + k of player, so bit i of the conjunction is set iff bits i, i + s,
\* i + 2s and i + 3s of player are
line4(player, s) ==
  \E i \in player : (i + s) \in player /\ (i + 2 * s) \in player /\ (i + 3 * s) \in player

\* is_winning with the shifts of the second diagonal one too small
is_winning_shift6(player) ==
  \/ line4(player, 1)
  \/ line4(player, 8)
  \/ line4(player, 9)
  \/ line4(player, 6)

is_winning(player) ==
  \/ line4(player, 1)
  \/ line4(player, 8)
  \/ line4(player, 9)
  \/ line4(player, 7)

(* ------------------------------ get_status ----------------------------- *)
get_status(p1, p2) ==
  IF is_winning(p1) THEN "WON"
  ELSE IF is_winning(p2) THEN "LOST"
  ELSE IF FULL_GRID = (p1 \cup p2) THEN "DRAW"
  ELSE "PLAYING"

(* -------------------------------- Node ---------------------------------- *)
\* struct Node
NewNode(state, parent) ==
  [state |-> state, children |-> << >>, parent |-> parent,
   score |-> 0, nb_visit |-> 0, status |-> get_status(state[1], state[2])]

\* fn init_graph
init_graph == << NewNode(<< {}, {} >>, None) >>

(* ------------------------------ f64 values ----------------------------- *)
\* An f64 is a ratio num/den of integers, +infinity or NaN.
Num(n, d) == [kind |-> "num", num |-> n, den |-> d]
NaN == [kind |-> "nan", num |-> 0, den |-> 1]
Inf == [kind |-> "inf", num |-> 1, den |-> 1]

\* a > b on f64: false as soon as one side is NaN
Gt(a, b) ==
  /\ a.kind # "nan"
  /\ b.kind # "nan"
  /\ \/ a.kind = "inf" /\ b.kind = "num"
     \/ a.kind = "num" /\ b.kind = "num" /\ a.num * b.den > b.num * a.den

\* score as f64 / nb_visit as f64
ratio(score, nb_visit) ==
  IF nb_visit = 0 THEN (IF score = 0 THEN NaN ELSE Inf)
  ELSE Num(score, nb_visit)

\* 10000 * log2(n), rounded, for n in 1..32
Log2Table ==
  << 0, 10000, 15850, 20000, 23219, 25850, 28074, 30000, 31699, 33219, 34594,
     35850, 37004, 38074, 39069, 40000, 40875, 41699, 42479, 43219, 43923,
     44594, 45236, 45850, 46439, 47004, 47549, 48074, 48580, 49069, 49542, 50000 >>

RECURSIVE log2x(_)
log2x(n) == IF n <= Len(Log2Table) THEN Log2Table[n] ELSE 10000 + log2x(n \div 2)

\* floor of the square root of x, by bisection on lo..hi
RECURSIVE isqrt(_, _, _)
isqrt(x, lo, hi) ==
  IF lo >= hi THEN lo
  ELSE LET mid == (lo + hi + 1) \div 2
       IN  IF mid * mid <= x THEN isqrt(x, mid, hi) ELSE isqrt(x, lo, mid - 1)

\* score/nb_visit + UCTC * sqrt(log2(parent nb_visit) / nb_visit), in units of 1/10000
uct_value(score, nb_visit, parent_visit) ==
  IF parent_visit = 0 THEN NaN
  ELSE IF nb_visit = 0
    THEN (IF score = 0 \/ parent_visit = 1 THEN NaN ELSE Inf)
  ELSE Num((score * 10000) \div nb_visit
             + UCTC * isqrt((log2x(parent_visit) * 10000) \div nb_visit, 0, 40000), 1)

(* ------------------------------ selection ------------------------------ *)
\* the loop over graph[node].children of selection (lines 100-110)
RECURSIVE uct_scan(_, _, _, _, _)
uct_scan(g, node, i, best_child, best_score) ==
  IF i > Len(g[node + 1].children) THEN best_child
  ELSE LET child == g[node + 1].children[i]
           value == uct_value(g[child + 1].score, g[child + 1].nb_visit,
                              g[node + 1].nb_visit)
       IN  IF best_child = None \/ Gt(value, best_score)
           THEN uct_scan(g, node, i + 1, child, value)
           ELSE uct_scan(g, node, i + 1, best_child, best_score)

\* expansion that returns the expanded node instead of the new child
expansion_returns_parent(node, g, moves) ==
  LET child_move == moves[Len(g[node + 1].children) + 1]
      child == Len(g)
      g1 == Append(g, NewNode(child_move, node))
  IN  [node |-> node,
       graph |-> [g1 EXCEPT ![node + 1].children = Append(@, child)],
       panic |-> FALSE]

\* expansion that forgets graph[node].children.push(child)
expansion_no_link(node, g, moves) ==
  LET child_move == moves[Len(g[node + 1].children) + 1]
      child == Len(g)
      g1 == Append(g, NewNode(child_move, node))
  IN  [node |-> child, graph |-> g1, panic |-> FALSE]

\* the expansion branch of selection (lines 113-125)
expansion(node, g, moves) ==
  LET child_move == moves[Len(g[node + 1].children) + 1]
      child == Len(g)
      g1 == Append(g, NewNode(child_move, node))
  IN  [node |-> child,
       graph |-> [g1 EXCEPT ![node + 1].children = Append(@, child)],
       panic |-> FALSE]

\* fn selection: the working node, the arena after expansion, and whether it panicked
RECURSIVE selection(_, _)

\* selection without the test of the stored status (lines 91-93)
selection_no_status_test(node, g) ==
  LET moves == get_moves(g[node + 1].state[1], g[node + 1].state[2])
      stay == [node |-> node, graph |-> g, panic |-> FALSE]
  IN  IF Len(moves) = 0 THEN stay
      ELSE IF Len(moves) = Len(g[node + 1].children)
        THEN selection(uct_scan(g, node, 1, None, NaN), g)
      ELSE IF Len(g[node + 1].children) > Len(moves)
        THEN [stay EXCEPT !.panic = TRUE]
      ELSE expansion(node, g, moves)

selection(node, g) ==
  LET moves == get_moves(g[node + 1].state[1], g[node + 1].state[2])
      stay == [node |-> node, graph |-> g, panic |-> FALSE]
  IN  IF g[node + 1].status # "PLAYING" THEN stay
      ELSE IF Len(moves) = 0 THEN stay
      ELSE IF Len(moves) = Len(g[node + 1].children)
        THEN selection(uct_scan(g, node, 1, None, NaN), g)
      ELSE IF Len(g[node + 1].children) > Len(moves)
        THEN [stay EXCEPT !.panic = TRUE]    \* moves[children.len()] out of bounds
      ELSE expansion(node, g, moves)

(* ------------------------------ simulation ----------------------------- *)
\* rand::thread_rng().gen_range(0..len): draw number d of the generator seeded with st
gen_range(st, d, len) == (st * (d + 1) + d) % len

\* [2, 1, 0][result]
flip(result) == << 2, 1, 0 >>[result + 1]

\* fn simulation, when the generator seeded with st has produced d draws: the code
\* returned, the position the rollout ended in, the plies played below this call,
\* the positions the calls were made on (this call's first), whether it panicked
RECURSIVE simulation(_, _, _, _)

\* simulation without the test of the full board
simulation_no_full_test(p1, p2, st, d) ==
  IF is_winning(p2)
    THEN [code |-> 2, end |-> <<p1, p2>>, plies |-> 0, path |-> << <<p1, p2>> >>,
          panic |-> FALSE]
  ELSE LET moves == get_moves(p1, p2)
       IN  IF Len(moves) = 0      \* gen_range(0..0) panics
           THEN [code |-> 0, end |-> <<p1, p2>>, plies |-> 0, path |-> << <<p1, p2>> >>,
                 panic |-> TRUE]
           ELSE LET m == moves[gen_range(st, d, Len(moves)) + 1]
                    r == simulation(m[1], m[2], st, d + 1)
                IN  [r EXCEPT !.code = flip(r.code), !.plies = r.plies + 1,
                              !.path = << <<p1, p2>> >> \o r.path]

simulation(p1, p2, st, d) ==
  IF is_winning(p2)
    THEN [code |-> 2, end |-> <<p1, p2>>, plies |-> 0, path |-> << <<p1, p2>> >>,
          panic |-> FALSE]
  ELSE IF (p1 \cup p2) = FULL_GRID
    THEN [code |-> 1, end |-> <<p1, p2>>, plies |-> 0, path |-> << <<p1, p2>> >>,
          panic |-> FALSE]
  ELSE LET moves == get_moves(p1, p2)
       IN  IF Len(moves) = 0      \* gen_range(0..0) panics
           THEN [code |-> 0, end |-> <<p1, p2>>, plies |-> 0, path |-> << <<p1, p2>> >>,
                 panic |-> TRUE]
           ELSE LET m == moves[gen_range(st, d, Len(moves)) + 1]
                    r == simulation(m[1], m[2], st, d + 1)
                IN  [r EXCEPT !.code = flip(r.code), !.plies = r.plies + 1,
                              !.path = << <<p1, p2>> >> \o r.path]

(* ---------------------------- backpropagation -------------------------- *)
RECURSIVE backpropagation(_, _, _)

\* backpropagation that forgets to walk up the parent links
backpropagation_leaf_only(node, g, score) ==
  [g EXCEPT ![node + 1].nb_visit = @ + 1, ![node + 1].score = @ + score]

\* backpropagation that counts the visit inside the `if let Some(parent)` block
backpropagation_late_visit(node, g, score) ==
  LET g1 == [g EXCEPT ![node + 1].score = @ + score]
  IN  IF g1[node + 1].parent # None
      THEN backpropagation(g1[node + 1].parent,
                           [g1 EXCEPT ![node + 1].nb_visit = @ + 1], flip(score))
      ELSE g1

\* backpropagation that leaves the node without parent alone
backpropagation_not_top(node, g, score) ==
  IF g[node + 1].parent = None THEN g
  ELSE LET g1 == [g EXCEPT ![node + 1].nb_visit = @ + 1, ![node + 1].score = @ + score]
       IN  backpropagation(g1[node + 1].parent, g1, flip(score))

backpropagation(node, g, score) ==
  LET g1 == [g EXCEPT ![node + 1].nb_visit = @ + 1, ![node + 1].score = @ + score]
  IN  IF g1[node + 1].parent # None
      THEN backpropagation(g1[node + 1].parent, g1, flip(score))
      ELSE g1

(* -------------------------- best move of mcst -------------------------- *)
RECURSIVE best_scan(_, _, _, _, _)

\* the loop with `value >= best_score`: the last of the tied children wins
best_scan_last(g, root_, i, best_x, best_score) ==
  IF i > Len(g[root_ + 1].children) THEN [x |-> best_x, value |-> best_score]
  ELSE LET x == g[root_ + 1].children[i]
           value == ratio(g[x + 1].score, g[x + 1].nb_visit)
       IN  IF best_x = None \/ ~Gt(best_score, value)
           THEN best_scan(g, root_, i + 1, x, value)
           ELSE best_scan(g, root_, i + 1, best_x, best_score)

\* the loop of lines 164-174 over the children of root; best_x = None when there is none
best_scan(g, root_, i, best_x, best_score) ==
  IF i > Len(g[root_ + 1].children) THEN [x |-> best_x, value |-> best_score]
  ELSE LET x == g[root_ + 1].children[i]
           value == ratio(g[x + 1].score, g[x + 1].nb_visit)
       IN  IF best_x = None \/ Gt(value, best_score)
           THEN best_scan(g, root_, i + 1, x, value)
           ELSE best_scan(g, root_, i + 1, best_x, best_score)

best_move(g, root_) == best_scan(g, root_, 1, None, NaN)

(* ------------------------- session helper functions -------------------- *)
\* fn get_user_move: whether the input `value` is accepted (otherwise it asks again)
user_move_ok(a, b, value) ==
  /\ value >= 1
  /\ value <= 7
  /\ first_empty(a \cup b, value - 1, 0) < ROWS

\* fn get_user_move for an accepted input
get_user_move(a, b, value) ==
  << b, a \cup {first_empty(a \cup b, value - 1, 0) * STRIDE + value - 1} >>

\* a ^ b on u64
Xor(a, b) == (a \ b) \cup (b \ a)

\* fn to_user_move: the column 1..7, or 0 when it reaches unreachable!()
to_user_move(previous_state, new_state) ==
  LET m == Xor(previous_state[1], new_state[2])
      hit == {c \in FULL_GRID : {c} = m}
  IN  IF hit = {} THEN 0 ELSE ((CHOOSE c \in hit : TRUE) % STRIDE) + 1

\* lines 205-214 of main: re-root on the child holding the new state, or overwrite
RECURSIVE find_child(_, _, _, _)
find_child(g, root_, i, state) ==
  IF i > Len(g[root_ + 1].children) THEN root_
  ELSE IF g[g[root_ + 1].children[i] + 1].state = state THEN g[root_ + 1].children[i]
  ELSE find_child(g, root_, i + 1, state)

\* update_graph without the fallback overwrite of lines 212-214
update_graph_no_overwrite(g, root_, state) ==
  [graph |-> g, root |-> find_child(g, root_, 1, state)]

\* update_graph that resets the statistics of the child it re-roots on
update_graph_reset(g, root_, state) ==
  LET r == find_child(g, root_, 1, state)
  IN  IF r = root_
      THEN [graph |-> [g EXCEPT ![root_ + 1].state = state], root |-> root_]
      ELSE [graph |-> [g EXCEPT ![r + 1].nb_visit = 0, ![r + 1].score = 0], root |-> r]

update_graph(g, root_, state) ==
  LET r == find_child(g, root_, 1, state)
  IN  IF r = root_
      THEN [graph |-> [g EXCEPT ![root_ + 1].state = state], root |-> root_]
      ELSE [graph |-> g, root |-> r]

(* ------------------------------- state --------------------------------- *)
VARIABLES
  p1, p2,        \* the real game state of main
  score,         \* the evaluation printed after the engine's move
  player_turn,   \* get_player_turn(): 0 when the human starts, 1 otherwise
  turn,
  graph,         \* the arena, Vec<Node>
  root,          \* index of the current root
  pc,            \* "turn": top of the loop of main; "search": inside the loop of mcst;
                 \* "done": after the loop of main; "panic": the process aborted
  iters,         \* iterations completed by the running mcst call
  total,         \* iterations completed since the start of the session
  seed,          \* seed of rand::thread_rng()
  drawn,         \* number of draws the generator has produced
  hits,          \* history: hits[i + 1] = completed iterations whose working node was i
  last,          \* history: the working node, rollout and search root of the last
                 \* iteration, and the call that panicked in it ("none" when none did)
  fpc,           \* "session" in a session, "long" in a session followed longer; else
                 \* the function applied on its own: "input" / "moves" for get_moves,
                 \* "win" for is_winning
  arg,           \* the argument of the function applied on its own
  res            \* its result

vars == << p1, p2, score, player_turn, turn, graph, root, pc, iters, total,
          seed, drawn, hits, last, fpc, arg, res >>

\* the number of turns and iterations a session is followed for
StepLimit == IF fpc = "long" THEN MaxLongSteps ELSE MaxSteps

NoIteration ==
  [node |-> None, root |-> None, code |-> 0, end |-> << {}, {} >>, plies |-> 0,
   path |-> << >>, panic |-> "none"]

InitSession ==
  /\ p1 = {}
  /\ p2 = {}
  /\ score = Num(0, 1)
  /\ player_turn \in {0, 1}
  /\ turn = 0
  /\ graph = init_graph
  /\ root = 0
  /\ pc = "turn"
  /\ iters = 0
  /\ total = 0
  /\ seed \in 0..MaxSeed
  /\ drawn = 0
  /\ hits = << 0 >>
  /\ last = NoIteration

Init ==
  /\ InitSession
  /\ fpc = "session"
  /\ arg = << {}, {} >>
  /\ res = << >>

\* the test of the while loop without the test for a win
Running_no_win_test == (p1 \cup p2) # FULL_GRID

\* while !is_winning(p2) && p1 | p2 != FULL_GRID
Running == ~is_winning(p2) /\ (p1 \cup p2) # FULL_GRID

\* the player branch of the loop of main, for the accepted input `value`
HumanMove(value) ==
  /\ pc = "turn"
  /\ Running
  /\ turn % 2 = player_turn
  /\ turn + total < StepLimit
  /\ user_move_ok(p1, p2, value)
  /\ LET s == get_user_move(p1, p2, value)
         u == update_graph(graph, root, s)
     IN  /\ p1' = s[1]
         /\ p2' = s[2]
         /\ graph' = u.graph
         /\ root' = u.root
  /\ turn' = turn + 1
  /\ UNCHANGED << score, player_turn, pc, iters, total, seed, drawn, hits, last >>

\* the bot branch entered without the test of the while loop
BotBegin_unguarded ==
  /\ pc = "turn"
  /\ turn % 2 # player_turn
  /\ turn + total < StepLimit
  /\ pc' = "search"
  /\ iters' = 0
  /\ UNCHANGED << p1, p2, score, player_turn, turn, graph, root, total,
                  seed, drawn, hits, last >>

\* the bot branch: mcst is entered and reads the clock
BotBegin ==
  /\ pc = "turn"
  /\ Running
  /\ turn % 2 # player_turn
  /\ turn + total < StepLimit
  /\ pc' = "search"
  /\ iters' = 0
  /\ UNCHANGED << p1, p2, score, player_turn, turn, graph, root, total,
                  seed, drawn, hits, last >>

\* one pass of the while loop of mcst
Iterate ==
  /\ pc = "search"
  /\ turn + total < StepLimit
  /\ \E sel \in {selection(root, graph)} :
     \E sim \in {simulation(sel.graph[sel.node + 1].state[1],
                           sel.graph[sel.node + 1].state[2], seed, drawn)} :
         IF sel.panic \/ sim.panic
         THEN /\ pc' = "panic"
              /\ graph' = sel.graph
              /\ last' = [node |-> sel.node, root |-> root, code |-> sim.code,
                          end |-> sim.end, plies |-> sim.plies, path |-> sim.path,
                          panic |-> IF sel.panic THEN "selection" ELSE "simulation"]
              /\ UNCHANGED << iters, total, drawn, hits >>
         ELSE /\ graph' = backpropagation(sel.node, sel.graph, sim.code)
              /\ hits' = LET h == IF Len(sel.graph) > Len(graph) THEN Append(hits, 0)
                                  ELSE hits
                         IN  [h EXCEPT ![sel.node + 1] = @ + 1]
              /\ last' = [node |-> sel.node, root |-> root, code |-> sim.code,
                          end |-> sim.end, plies |-> sim.plies, path |-> sim.path,
                          panic |-> "none"]
              /\ iters' = iters + 1
              /\ total' = total + 1
              /\ drawn' = drawn + sim.plies
              /\ pc' = pc
  /\ UNCHANGED << p1, p2, score, player_turn, turn, root, seed >>

\* the deadline has passed: lines 156-175 of mcst, then lines 218-223 of main
BotEnd ==
  /\ pc = "search"
  /\ iters >= 1
  /\ LET best == best_move(graph, root)
     IN  IF best.x = None
         THEN /\ pc' = "panic"                 \* best_score.unwrap() on None
              /\ UNCHANGED << p1, p2, score, root, turn >>
         ELSE /\ score' = best.value
              /\ p1' = graph[best.x + 1].state[1]
              /\ p2' = graph[best.x + 1].state[2]
              /\ root' = best.x
              /\ IF to_user_move(<< p1, p2 >>, graph[best.x + 1].state) = 0
                 THEN pc' = "panic" /\ turn' = turn       \* unreachable!()
                 ELSE pc' = "turn" /\ turn' = turn + 1
  /\ UNCHANGED << player_turn, graph, iters, total, seed, drawn, hits, last >>

\* the loop of main ends
Finish ==
  /\ pc = "turn"
  /\ ~Running
  /\ pc' = "done"
  /\ UNCHANGED << p1, p2, score, player_turn, turn, graph, root, iters, total,
                  seed, drawn, hits, last >>

Session ==
  \/ \E value \in 1..MaxHumanInput : HumanMove(value)
  \/ BotBegin
  \/ Iterate
  \/ BotEnd
  \/ Finish

Next == Session /\ UNCHANGED << fpc, arg, res >>

Spec == Init /\ [][Next]_vars

(* ----------------------- a session followed longer --------------------- *)
\* the column the human answers in the longer session
LongInputs == {2}

InitLong ==
  /\ InitSession
  /\ seed = 0
  /\ fpc = "long"
  /\ arg = << {}, {} >>
  /\ res = << >>

SessionLong ==
  \/ \E value \in LongInputs : HumanMove(value)
  \/ BotBegin
  \/ Iterate
  \/ BotEnd
  \/ Finish

NextLong == SessionLong /\ UNCHANGED << fpc, arg, res >>

SpecLong == InitLong /\ [][NextLong]_vars

(* ---------------------- get_moves applied on its own -------------------- *)
\* numbers of stones a column of an input position holds
Heights == {0, 2, 5, 6}

\* the position whose column x holds h[x] stones, the stone of cell (x, y)
\* being in the first mask iff x + y + k is even
Position(h, k) ==
  LET cells == {c \in FULL_GRID : (c \div STRIDE) < h[c % STRIDE]}
      first == {c \in cells : ((c % STRIDE) + (c \div STRIDE) + k) % 2 = 0}
  IN  << first, cells \ first >>

SessionIdle == InitSession /\ player_turn = 0 /\ seed = 0
IdleVars == << p1, p2, score, player_turn, turn, graph, root, pc, iters, total,
              seed, drawn, hits, last >>

InitMoves ==
  /\ SessionIdle
  /\ fpc = "input"
  /\ \E h \in [0..(COLS - 1) -> Heights], k \in {0, 1} : arg = Position(h, k)
  /\ res = << >>

ApplyGetMoves ==
  /\ fpc = "input"
  /\ fpc' = "moves"
  /\ res' = get_moves(arg[1], arg[2])
  /\ UNCHANGED << arg, IdleVars >>

NextMoves == ApplyGetMoves

SpecMoves == InitMoves /\ [][NextMoves]_vars

(* --------------------- is_winning applied on its own -------------------- *)
InitWin ==
  /\ SessionIdle
  /\ fpc = "win"
  /\ arg = {}
  /\ res = is_winning({})

\* the mask grows by a cell above its cells, and is_winning is applied to it
AddCell(c) ==
  /\ fpc = "win"
  /\ Cardinality(arg) < MaxCells
  /\ \A b \in arg : b < c
  /\ arg' = arg \cup {c}
  /\ res' = is_winning(arg')
  /\ UNCHANGED << fpc, IdleVars >>

NextWin == \E c \in FULL_GRID : AddCell(c)

SpecWin == InitWin /\ [][NextWin]_vars

(* ======================================================================= *)
(* Properties                                                              *)
(* ======================================================================= *)
Nodes == 0..(Len(graph) - 1)
Children(g, n) == {g[n + 1].children[i] : i \in 1..Len(g[n + 1].children)}
Stones(state) == Cardinality(state[1] \cup state[2])

\* the step is the player branch of main
HumanStep == pc = "turn" /\ turn' = turn + 1
\* the step is one pass of the loop of mcst
IterStep == total' = total + 1
\* the step is the end of mcst, a best child having been found
BotEndStep == pc = "search" /\ pc' # "search" /\ root' # root
\* the last turn played was the human's / the engine's
HumanJustMoved == turn >= 1 /\ (turn - 1) % 2 = player_turn
BotJustMoved == turn >= 1 /\ (turn - 1) % 2 # player_turn

(* C1: at every turn boundary of the session loop (initially, after a human *)
(* move whether it re-rooted or overwrote, after an engine move) the state *)
(* stored in the root node is the real game state (p1, p2).                *)
C1_RootInSync == (pc \in {"turn", "done"}) => graph[root + 1].state = << p1, p2 >>

\* a turn boundary reached after the engine moved and the human answered on a
\* root that is not the initial node
C1_Witness ==
  /\ pc = "turn"
  /\ turn >= 2
  /\ HumanJustMoved
  /\ root # 0
  /\ graph[root + 1].state = << p1, p2 >>

(* C2: a human move to the state of a child of the root makes that child   *)
(* the root and changes no node of the arena; a human move to any other    *)
(* state keeps the root and changes only the state field of the root node. *)
C2_ReRootFrame ==
  [][HumanStep =>
       LET s == << p1', p2' >>
           matching == {c \in Children(graph, root) : graph[c + 1].state = s}
       IN  IF matching # {}
           THEN /\ root' \in matching
                /\ graph' = graph
           ELSE /\ root' = root
                /\ graph' = [graph EXCEPT ![root + 1].state = s]]_vars

\* the human has just moved onto a child of the previous root that carries
\* statistics: the new root is one ply below its parent and was visited
C2_Witness ==
  /\ pc = "turn"
  /\ HumanJustMoved
  /\ root # 0
  /\ Stones(graph[root + 1].state) = Stones(graph[graph[root + 1].parent + 1].state) + 1
  /\ graph[root + 1].nb_visit >= 1

\* the nodes at which selection, started at `node`, runs its UCT loop
RECURSIVE UctNodes(_, _)
UctNodes(node, g) ==
  LET moves == get_moves(g[node + 1].state[1], g[node + 1].state[2])
  IN  IF g[node + 1].status # "PLAYING" \/ Len(moves) = 0
         \/ Len(moves) # Len(g[node + 1].children)
      THEN {}
      ELSE {node} \cup UctNodes(uct_scan(g, node, 1, None, NaN), g)

(* C3: whenever selection computes the UCT value of a child, the parent    *)
(* and the child have nb_visit >= 1; whenever mcst computes score/nb_visit *)
(* of a root child, that child has nb_visit >= 1.                          *)
C3_NoZeroVisit ==
  pc = "search" =>
    /\ \A n \in UctNodes(root, graph) :
         /\ graph[n + 1].nb_visit >= 1
         /\ \A c \in Children(graph, n) : graph[c + 1].nb_visit >= 1
    /\ iters >= 1 => \A c \in Children(graph, root) : graph[c + 1].nb_visit >= 1

\* a search about to descend through two fully expanded nodes
C3_Witness ==
  /\ pc = "search"
  /\ iters >= 1
  /\ Cardinality(UctNodes(root, graph)) >= 1
  /\ turn >= 1

\* node a is node n or one of its ancestors by parent links
RECURSIVE AtOrAbove(_, _, _)
AtOrAbove(g, a, n) ==
  IF n = a THEN TRUE
  ELSE IF g[n + 1].parent = None THEN FALSE
  ELSE AtOrAbove(g, a, g[n + 1].parent)

RECURSIVE SumHits(_, _)
SumHits(h, S) ==
  IF S = {} THEN 0
  ELSE LET n == CHOOSE m \in S : TRUE IN h[n + 1] + SumHits(h, S \ {n})

(* C4: every node's nb_visit is the number of completed iterations whose   *)
(* working node was that node or one of its descendants by parent links.   *)
C4_VisitCount ==
  \A a \in Nodes :
    graph[a + 1].nb_visit = SumHits(hits, {n \in Nodes : AtOrAbove(graph, a, n)})

\* after a re-rooting, an inner node counts visits of working nodes below it
C4_Witness ==
  /\ root # 0
  /\ turn >= 2
  /\ \E a \in Nodes : hits[a + 1] >= 1 /\ graph[a + 1].nb_visit >= hits[a + 1] + 2

\* the nodes from n up to the node without parent
RECURSIVE PathUp(_, _)
PathUp(g, n) ==
  IF g[n + 1].parent = None THEN {n} ELSE {n} \cup PathUp(g, g[n + 1].parent)

\* the player who moved into a position: stones are placed by players 0 and 1
\* in turn, so the last of c stones was placed by player (c + 1) % 2
MovedInto(state) == (Stones(state) + 1) % 2

\* what C5 says an iteration adds to the score of node n, given the position
\* the rollout ended in
C5_Expected(state, end) ==
  IF ~is_winning(end[2]) THEN 1
  ELSE IF MovedInto(end) = MovedInto(state) THEN 2
  ELSE 0

(* C5: an iteration adds to the score of every node of the backpropagation *)
(* path 2 if the rollout was won by the player who moved into that node    *)
(* (the holder of the second mask of its state), 0 if it was won by the    *)
(* node's player to move, 1 if it was a draw.                              *)
C5_ScorePerspective ==
  [][IterStep =>
       \A n \in PathUp(graph', last'.node) :
         graph'[n + 1].score
           = (IF n < Len(graph) THEN graph[n + 1].score ELSE 0)
             + C5_Expected(graph'[n + 1].state, last'.end)]_vars

(* C6: every node has 0 <= score <= 2 * nb_visit, and the evaluation       *)
(* returned by mcst lies in [0, 2].                                        *)
C6_ScoreRange ==
  /\ \A n \in Nodes : 0 <= graph[n + 1].score
                      /\ graph[n + 1].score <= 2 * graph[n + 1].nb_visit
  /\ score.kind = "num"
  /\ score.den >= 1
  /\ 0 <= score.num
  /\ score.num <= 2 * score.den

\* the engine has returned the largest evaluation, from a child visited more
\* than once
C6_Witness ==
  /\ pc = "turn"
  /\ BotJustMoved
  /\ score.den >= 2
  /\ score.num = 2 * score.den

\* the position of child c in the children of node n
IndexIn(g, n, c) == CHOOSE i \in 1..Len(g[n + 1].children) : g[n + 1].children[i] = c

(* C7: the triple returned by mcst belongs to a direct child c of the root *)
(* whose score/nb_visit is maximal among the root's children, c being the  *)
(* first such child in children order; the index returned is c's index and *)
(* the state returned is c's stored state.                                 *)
C7_BestMove ==
  [][BotEndStep =>
       /\ root' \in Children(graph, root)
       /\ \A k \in Children(graph, root) :
            /\ graph[k + 1].nb_visit >= 1
            /\ graph[k + 1].score * graph[root' + 1].nb_visit
                 <= graph[root' + 1].score * graph[k + 1].nb_visit
            /\ IndexIn(graph, root, k) < IndexIn(graph, root, root')
                 => graph[k + 1].score * graph[root' + 1].nb_visit
                      < graph[root' + 1].score * graph[k + 1].nb_visit
       /\ score' = Num(graph[root' + 1].score, graph[root' + 1].nb_visit)
       /\ << p1', p2' >> = graph[root' + 1].state]_vars

\* the engine has just moved to a child that a later sibling ties with
C7_Witness ==
  /\ pc = "turn"
  /\ BotJustMoved
  /\ graph[root + 1].parent # None
  /\ \E k \in Children(graph, graph[root + 1].parent) :
       /\ k > root
       /\ graph[k + 1].score * graph[root + 1].nb_visit
            = graph[root + 1].score * graph[k + 1].nb_visit
  /\ \E k \in Children(graph, graph[root + 1].parent) :
       graph[k + 1].score * graph[root + 1].nb_visit
         < graph[root + 1].score * graph[k + 1].nb_visit

(* C8: each time main calls mcst the root's stored status is PLAYING and   *)
(* its state is not terminal and has a legal move; after one iteration the *)
(* root has a child, so no unwrap() of mcst or selection fails.            *)
C8_SearchHasChildren ==
  pc = "search" =>
    /\ graph[root + 1].status = "PLAYING"
    /\ get_status(graph[root + 1].state[1], graph[root + 1].state[2]) = "PLAYING"
    /\ Len(get_moves(graph[root + 1].state[1], graph[root + 1].state[2])) >= 1
    /\ iters >= 1 => /\ Len(graph[root + 1].children) >= 1
                     /\ best_move(graph, root).x # None
    /\ \A n \in UctNodes(root, graph) : uct_scan(graph, n, 1, None, NaN) # None

\* a search, not the first of the session, that has completed an iteration
\* from a root the human's move was written into
C8_Witness ==
  /\ pc = "search"
  /\ iters >= 1
  /\ turn >= 2
  /\ graph[root + 1].parent # None
  /\ Stones(graph[root + 1].state) >= Stones(graph[graph[root + 1].parent + 1].state) + 2

\* a position is well formed: disjoint masks inside FULL_GRID, no stone above
\* an empty cell
WellFormed(a, b) ==
  /\ a \cap b = {}
  /\ (a \cup b) \subseteq FULL_GRID
  /\ \A c \in (a \cup b) : c >= STRIDE => (c - STRIDE) \in (a \cup b)

\* number of stones in column x
Height(grid, x) == Cardinality({c \in grid : c % STRIDE = x})

(* C9: for a well-formed position (A, B), get_moves returns at most 7      *)
(* states, one for each column that is not full, in ascending column       *)
(* order, each being (B, A | bit) with bit the lowest empty cell of the    *)
(* column; it returns no state iff A | B = FULL_GRID.                      *)
C9_MoveGenerator ==
  (fpc = "moves" /\ WellFormed(arg[1], arg[2])) =>
    LET grid == arg[1] \cup arg[2]
        open == {x \in 0..6 : Height(grid, x) < 6}
    IN  /\ Len(res) <= 7
        /\ Len(res) = Cardinality(open)
        /\ \A x \in open :
             res[Cardinality({z \in open : z < x}) + 1]
               = << arg[2], arg[1] \cup {Height(grid, x) * 8 + x} >>
        /\ (Len(res) = 0) <=> (grid = FULL_GRID)

\* get_moves was applied to a position with a full column, a partly filled
\* column and an empty column
C9_Witness ==
  /\ fpc = "moves"
  /\ WellFormed(arg[1], arg[2])
  /\ \E x, y, z \in 0..6 :
       /\ Height(arg[1] \cup arg[2], x) = 6
       /\ Height(arg[1] \cup arg[2], y) = 2
       /\ Height(arg[1] \cup arg[2], z) = 0
       /\ x < y
  /\ Len(res) >= 2

\* the mask holds four cells of the 7x6 board in a row, a column or a diagonal:
\* from a cell (x, y) of the mask, three more steps of d stay on the board and
\* in the mask
HasLine(mask) ==
  \E c \in mask, d \in {<< 1, 0 >>, << 0, 1 >>, << 1, 1 >>, << -1, 1 >>} :
    LET x == c % 8
        y == c \div 8
    IN  \A k \in 0..3 :
          /\ x + k * d[1] \in 0..6
          /\ y + k * d[2] \in 0..5
          /\ ((y + k * d[2]) * 8 + x + k * d[1]) \in mask

(* C10: for a mask inside FULL_GRID, is_winning is true iff the mask holds *)
(* four cells of the board consecutive along a row, a column or one of the *)
(* two diagonals; four bits spanning two rows are never counted.           *)
C10_WinDetection ==
  (fpc = "win" /\ arg \subseteq FULL_GRID) => (res = HasLine(arg))

\* is_winning was applied to four cells of a falling diagonal
C10_Witness ==
  /\ fpc = "win"
  /\ arg = {3, 10, 17, 24}
  /\ res = TRUE

\* at most one of the two masks of a position holds four in a row
OneWinnerAtMost(state) == ~(is_winning(state[1]) /\ is_winning(state[2]))

(* C11: in the real game state (p1, p2), in the state of every node of the *)
(* arena and in every position a rollout visits, is_winning is never true  *)
(* of both masks.                                                          *)
C11_AtMostOneWinner ==
  /\ OneWinnerAtMost(<< p1, p2 >>)
  /\ \A n \in Nodes : OneWinnerAtMost(graph[n + 1].state)
  /\ \A i \in 1..Len(last.path) : OneWinnerAtMost(last.path[i])

\* the game has been won, the arena holds a won position, and the last
\* rollout played at least one ply and ended in a win
C11_Witness ==
  /\ pc = "done"
  /\ is_winning(p2)
  /\ \E n \in Nodes : is_winning(graph[n + 1].state[2])
  /\ Len(last.path) >= 2
  /\ is_winning(last.end[2])

(* C12: the state mcst returns on an engine turn is an element of         *)
(* get_moves applied to the game state before the search (the mover gains  *)
(* the lowest empty cell of one column, the opponent's stones are          *)
(* unchanged), so to_user_move finds a single-bit difference and never     *)
(* reaches unreachable!().                                                 *)
C12_EngineMoveLegal ==
  [][BotEndStep =>
       /\ \E i \in 1..Len(get_moves(p1, p2)) : get_moves(p1, p2)[i] = << p1', p2' >>
       /\ to_user_move(<< p1, p2 >>, << p1', p2' >>) # 0
       /\ pc' # "panic"]_vars

(* C13: for every node n and every index i of children(n), the state of    *)
(* children(n)[i] is get_moves(state(n))[i]; in particular a node never has *)
(* more children than its state has legal moves.                           *)
C13_GeneratorOrder ==
  \A n \in Nodes :
    LET moves == get_moves(graph[n + 1].state[1], graph[n + 1].state[2])
    IN  /\ Len(graph[n + 1].children) <= Len(moves)
        /\ \A i \in 1..Len(graph[n + 1].children) :
             graph[graph[n + 1].children[i] + 1].state = moves[i]

\* the nodes from n up the parent links to r included (to the node without
\* parent when r is not met)
RECURSIVE PathTo(_, _, _)
PathTo(g, n, r) ==
  IF n = r \/ g[n + 1].parent = None THEN {n}
  ELSE {n} \cup PathTo(g, g[n + 1].parent, r)

\* nb_visit and score of node n before the step (0 for a node the step appends)
VisitBefore(n) == IF n < Len(graph) THEN graph[n + 1].nb_visit ELSE 0
ScoreBefore(n) == IF n < Len(graph) THEN graph[n + 1].score ELSE 0

(* C14 as claimed: an iteration of mcst started from root r changes        *)
(* nb_visit and score only on the parent-link path from the working node   *)
(* up to and including r; the strict ancestors of r and the nodes off the  *)
(* path keep both.                                                         *)
C14_StopsAtSearchRoot ==
  [][IterStep =>
       \A n \in 0..(Len(graph') - 1) :
         n \notin PathTo(graph', last'.node, root) =>
           /\ graph'[n + 1].nb_visit = VisitBefore(n)
           /\ graph'[n + 1].score = ScoreBefore(n)]_vars

(* C14 amended: an iteration of mcst started from root r adds 1 to         *)
(* nb_visit and 0, 1 or 2 to score on every node of the parent-link path   *)
(* from the working node up to and including the node without parent; r is *)
(* on that path, so the strict ancestors of r are updated too; the nodes   *)
(* off the path keep both.                                                 *)
C14_StopsAtTop ==
  [][IterStep =>
       /\ root \in PathUp(graph', last'.node)
       /\ \A n \in 0..(Len(graph') - 1) :
            IF n \in PathUp(graph', last'.node)
            THEN /\ graph'[n + 1].nb_visit = VisitBefore(n) + 1
                 /\ graph'[n + 1].score - ScoreBefore(n) \in {0, 1, 2}
            ELSE /\ graph'[n + 1].nb_visit = VisitBefore(n)
                 /\ graph'[n + 1].score = ScoreBefore(n)]_vars

\* a search whose root is not the initial node has completed an iteration,
\* and the initial node has counted every iteration of the session
C14_Witness ==
  /\ pc = "search"
  /\ iters >= 1
  /\ root # 0
  /\ last.root = root
  /\ last.node # root
  /\ graph[1].nb_visit = total
  /\ graph[root + 1].nb_visit < total

\* the sum of nb_visit over the children of node n from index i on
RECURSIVE SumVisits(_, _, _)
SumVisits(g, n, i) ==
  IF i > Len(g[n + 1].children) THEN 0
  ELSE g[g[n + 1].children[i] + 1].nb_visit + SumVisits(g, n, i + 1)

(* C15: after any number of completed iterations, every node created by    *)
(* expansion whose status is PLAYING has nb_visit = 1 + the sum of         *)
(* nb_visit over its children; the initial node (index 0) has nb_visit =   *)
(* that sum; every node whose status is not PLAYING has no children.       *)
C15_VisitAccounting ==
  \A n \in Nodes :
    /\ graph[n + 1].status # "PLAYING" => graph[n + 1].children = << >>
    /\ n = 0 => graph[n + 1].nb_visit = SumVisits(graph, n, 1)
    /\ (n # 0 /\ graph[n + 1].status = "PLAYING")
         => graph[n + 1].nb_visit = 1 + SumVisits(graph, n, 1)

\* selection has come back to a node of a finished game, whose fully
\* expanded parent was created by expansion
C15_Witness ==
  \E n \in Nodes :
    /\ graph[n + 1].status # "PLAYING"
    /\ graph[n + 1].nb_visit >= 2
    /\ graph[n + 1].parent # 0
    /\ Len(graph[graph[n + 1].parent + 1].children) = 7
    /\ graph[graph[n + 1].parent + 1].nb_visit >= 9

\* the number of empty cells of a position
EmptyCells(state) == Cardinality(FULL_GRID) - Stones(state)

(* C16: the rollout of every iteration starts on the state of the working  *)
(* node, ends after at most as many plies as that state has empty cells,   *)
(* returns 0, 1 or 2, and never draws a random index from an empty move    *)
(* list.                                                                   *)
C16_RolloutSafe ==
  /\ last.panic # "simulation"
  /\ last.node # None =>
       /\ last.code \in {0, 1, 2}
       /\ Len(last.path) = last.plies + 1
       /\ last.plies <= EmptyCells(last.path[1])
       /\ last.path[Len(last.path)] = last.end
  /\ (pc = "search" /\ iters >= 1) => last.path[1] = graph[last.node + 1].state

\* a rollout has played every empty cell of its first position and ended in
\* a draw on the full board
C16_Witness ==
  /\ last.node # None
  /\ last.code = 1
  /\ last.plies >= 30
  /\ last.plies = EmptyCells(last.path[1])
  /\ (last.end[1] \cup last.end[2]) = FULL_GRID

\* sequence a is the beginning of sequence b
IsPrefix(a, b) == Len(a) <= Len(b) /\ \A i \in 1..Len(a) : a[i] = b[i]

\* the places << m, i >> at which node n stands in a children list
Occurrences(g, n) ==
  {o \in (0..(Len(g) - 1)) \X (1..COLS) :
     o[2] <= Len(g[o[1] + 1].children) /\ g[o[1] + 1].children[o[2]] = n}

\* every node but index 0 has a parent of smaller index and stands once, in
\* the children of that parent only; index 0 alone has no parent
ArenaWellFormed ==
  /\ graph[1].parent = None
  /\ Occurrences(graph, 0) = {}
  /\ \A n \in Nodes : Len(graph[n + 1].children) <= COLS
  /\ \A n \in Nodes \ {0} :
       /\ graph[n + 1].parent \in 0..(n - 1)
       /\ Cardinality(Occurrences(graph, n)) = 1
       /\ \A o \in Occurrences(graph, n) : o[1] = graph[n + 1].parent

\* no step removes or reorders nodes, changes a parent, or changes a children
\* list otherwise than by appending to it
ArenaKept ==
  /\ Len(graph') >= Len(graph)
  /\ \A n \in Nodes :
       /\ graph'[n + 1].parent = graph[n + 1].parent
       /\ IsPrefix(graph[n + 1].children, graph'[n + 1].children)

\* the node at which selection, started at `node`, stops descending
RECURSIVE StopNode(_, _)
StopNode(node, g) ==
  LET moves == get_moves(g[node + 1].state[1], g[node + 1].state[2])
  IN  IF g[node + 1].status # "PLAYING" \/ Len(moves) = 0
         \/ Len(moves) # Len(g[node + 1].children)
      THEN node
      ELSE StopNode(uct_scan(g, node, 1, None, NaN), g)

\* an iteration appends one node, as last child of the node selection stops
\* at, when that node is PLAYING with fewer children than legal moves, and no
\* node when it is terminal
AppendsAtMostOne ==
  LET stop == StopNode(root, graph)
      moves == get_moves(graph[stop + 1].state[1], graph[stop + 1].state[2])
  IN  /\ Len(graph') \in {Len(graph), Len(graph) + 1}
      /\ (graph[stop + 1].status = "PLAYING" /\ Len(graph[stop + 1].children) < Len(moves))
           => /\ Len(graph') = Len(graph) + 1
              /\ last'.node = Len(graph)
              /\ graph'[Len(graph) + 1].parent = stop
              /\ graph'[Len(graph) + 1].children = << >>
              /\ graph'[stop + 1].children = Append(graph[stop + 1].children, Len(graph))
              /\ \A n \in Nodes \ {stop} : graph'[n + 1].children = graph[n + 1].children
      /\ graph[stop + 1].status # "PLAYING"
           => /\ Len(graph') = Len(graph)
              /\ last'.node = stop
              /\ \A n \in Nodes : graph'[n + 1].children = graph[n + 1].children

(* C17: each iteration appends at most one node (exactly one when          *)
(* selection stops at a PLAYING node with fewer children than legal moves, *)
(* none when it stops at a terminal node); no step removes or reorders     *)
(* nodes, changes a parent or changes a children list otherwise than by    *)
(* appending; in every reachable state each node other than index 0 has a  *)
(* parent of smaller index and stands exactly once, in exactly that        *)
(* parent's children list, and index 0 is the only node with parent None.  *)
C17_AppendOnly ==
  /\ []ArenaWellFormed
  /\ [][ArenaKept /\ (IterStep => AppendsAtMostOne)]_vars

\* an iteration has stopped at a terminal node it had visited before and
\* appended nothing: the session counts more iterations than appended nodes
C17_Witness ==
  /\ last.node # None
  /\ graph[last.node + 1].status # "PLAYING"
  /\ graph[last.node + 1].nb_visit >= 2
  /\ total >= Len(graph)
  /\ Len(graph) >= 9

(* C18: every node's stored status is get_status applied to the node's     *)
(* current state, the root node after the human-move fallback has          *)
(* overwritten its state included.                                         *)
C18_StatusCoherent ==
  \A n \in Nodes :
    graph[n + 1].status = get_status(graph[n + 1].state[1], graph[n + 1].state[2])

====
